---- MODULE Spec2Model ----
(***************************************************************************)
(* The Author / Magazine / Article mapping layer over the SQLite store.    *)
(*                                                                         *)
(* The store is the three tables of database_utils.create_tables.  A row's *)
(* id is its position: INTEGER PRIMARY KEY rowids are max(rowid)+1 and no  *)
(* statement of the library deletes a row.  The program's objects are held *)
(* in three caller variables, au, mg and art; art.author is the object in  *)
(* au and art.magazine the object in mg, so au and mg are rebound only     *)
(* while art holds no Article.                                             *)
(***************************************************************************)
EXTENDS Integers, Sequences, FiniteSets, TLC

VARIABLES authors, magazines, articles, au, mg, art, last, result, ops

vars == <<authors, magazines, articles, au, mg, art, last, result, ops>>
store == <<authors, magazines, articles>>
objects == <<au, mg, art>>

(* ---- bounds ---- *)
\* the operations of one run of the entity operations
MaxOps == 6
\* the operations of one run of the validation
MaxValidationOps == 5
\* the rows of the articles table under the aggregate queries
MaxRows == 4
\* the rows of the articles table under the relationship queries
MaxLinks == 2

(* ---- Python values ---- *)
\* id: Optional[int] = None
NoId == 0
None == [tag |-> "None", s |-> <<>>]
Str(s) == [tag |-> "str", s |-> s]
IsStr(v) == v.tag = "str"

NoError == "none"
ValueError == "ValueError"
IntegrityError == "IntegrityError"

Whitespace == {" ", "\t", "\n"}

RECURSIVE LStrip(_)
LStrip(s) ==
  IF s = <<>> THEN s
  ELSE IF Head(s) \in Whitespace THEN LStrip(Tail(s)) ELSE s

RECURSIVE RStrip(_)
RStrip(s) ==
  IF s = <<>> THEN s
  ELSE IF s[Len(s)] \in Whitespace THEN RStrip(SubSeq(s, 1, Len(s) - 1)) ELSE s

\* str.strip()
Strip(s) == RStrip(LStrip(s))

\* a check of the type alone
NotStr(value) == ~IsStr(value)

\* not isinstance(value, str) or not value.strip()
NotNonEmptyStr(value) == ~IsStr(value) \/ Strip(value.s) = <<>>

(* ---- objects ---- *)
NoAuthor == [live |-> FALSE, name |-> <<>>, id |-> NoId]
NoMagazine == [live |-> FALSE, name |-> <<>>, category |-> None, id |-> NoId]
NoArticle == [live |-> FALSE, title |-> <<>>, content |-> None, id |-> NoId]

Ok(o) == [raised |-> NoError, obj |-> o]
Raise(e, o) == [raised |-> e, obj |-> o]

\* Author.__init__
AuthorInit(name, id) ==
  IF NotNonEmptyStr(name) THEN Raise(ValueError, NoAuthor)
  ELSE Ok([live |-> TRUE, name |-> Strip(name.s), id |-> id])

\* Magazine.name setter
MagazineNameSetter(self, value) ==
  IF NotNonEmptyStr(value) THEN Raise(ValueError, self)
  ELSE Ok([self EXCEPT !.name = Strip(value.s)])

\* Magazine.category setter
MagazineCategorySetter(self, value) ==
  IF value = None THEN Ok([self EXCEPT !.category = None])
  ELSE IF NotNonEmptyStr(value) THEN Raise(ValueError, self)
  ELSE Ok([self EXCEPT !.category = Str(Strip(value.s))])

\* Magazine.__init__
MagazineInit(name, category, id) ==
  LET n == MagazineNameSetter([NoMagazine EXCEPT !.live = TRUE], name)
      c == MagazineCategorySetter(n.obj, category)
  IN  IF n.raised # NoError THEN Raise(n.raised, NoMagazine)
      ELSE IF c.raised # NoError THEN Raise(c.raised, NoMagazine)
      ELSE Ok([c.obj EXCEPT !.id = id])

\* Article.author setter
ArticleAuthorSetter(value) == IF value.live THEN NoError ELSE ValueError

\* Article.magazine setter
ArticleMagazineSetter(value) == IF value.live THEN NoError ELSE ValueError

\* Article.__init__
ArticleInit(title, author, magazine, content, id) ==
  IF NotNonEmptyStr(title) THEN Raise(ValueError, NoArticle)
  ELSE IF ArticleAuthorSetter(author) # NoError THEN Raise(ValueError, NoArticle)
  ELSE IF ArticleMagazineSetter(magazine) # NoError THEN Raise(ValueError, NoArticle)
  ELSE Ok([live |-> TRUE, title |-> Strip(title.s), content |-> content, id |-> id])

(* ---- statements ---- *)
Stmt(verb, table, id) == [verb |-> verb, table |-> table, id |-> id]
NameTaken(tbl, name, except) ==
  \E i \in 1..Len(tbl) : i # except /\ tbl[i].name = name

\* INSERT INTO authors(name) VALUES (?)
InsertAuthor(tbl, name) ==
  IF NameTaken(tbl, name, NoId)
  THEN [raised |-> IntegrityError, tbl |-> tbl, lastrowid |-> NoId]
  ELSE [raised |-> NoError, tbl |-> Append(tbl, [name |-> name]),
        lastrowid |-> Len(tbl) + 1]

\* UPDATE authors SET name = ? WHERE id = ?
UpdateAuthor(tbl, name, id) ==
  IF id \notin 1..Len(tbl) THEN [raised |-> NoError, tbl |-> tbl]
  ELSE IF NameTaken(tbl, name, id) THEN [raised |-> IntegrityError, tbl |-> tbl]
  ELSE [raised |-> NoError, tbl |-> [tbl EXCEPT ![id] = [name |-> name]]]

\* Author.save
AuthorSaveOp(tbl, self) ==
  IF self.id = NoId
  THEN LET r == InsertAuthor(tbl, self.name)
       IN  [raised |-> r.raised, tbl |-> r.tbl,
            obj |-> IF r.raised = NoError THEN [self EXCEPT !.id = r.lastrowid] ELSE self,
            stmts |-> <<Stmt("INSERT", "authors", r.lastrowid)>>]
  ELSE LET r == UpdateAuthor(tbl, self.name, self.id)
       IN  [raised |-> r.raised, tbl |-> r.tbl, obj |-> self,
            stmts |-> <<Stmt("UPDATE", "authors", self.id)>>]


\* INSERT INTO magazines(name, category) VALUES (?, ?)
InsertMagazine(tbl, name, category) ==
  IF NameTaken(tbl, name, NoId)
  THEN [raised |-> IntegrityError, tbl |-> tbl, lastrowid |-> NoId]
  ELSE [raised |-> NoError,
        tbl |-> Append(tbl, [name |-> name, category |-> category]),
        lastrowid |-> Len(tbl) + 1]

\* UPDATE magazines SET name = ?, category = ? WHERE id = ?
UpdateMagazine(tbl, name, category, id) ==
  IF id \notin 1..Len(tbl) THEN [raised |-> NoError, tbl |-> tbl]
  ELSE IF NameTaken(tbl, name, id) THEN [raised |-> IntegrityError, tbl |-> tbl]
  ELSE [raised |-> NoError,
        tbl |-> [tbl EXCEPT ![id] = [name |-> name, category |-> category]]]

\* Magazine.save that inserts whether or not the magazine has an id
MagazineSaveOpInsertOnly(tbl, self) ==
  LET r == InsertMagazine(tbl, self.name, self.category)
  IN  [raised |-> r.raised, tbl |-> r.tbl,
       obj |-> IF r.raised = NoError THEN [self EXCEPT !.id = r.lastrowid] ELSE self,
       stmts |-> <<Stmt("INSERT", "magazines", r.lastrowid)>>]

\* Magazine.save
MagazineSaveOp(tbl, self) ==
  IF self.id = NoId
  THEN LET r == InsertMagazine(tbl, self.name, self.category)
       IN  [raised |-> r.raised, tbl |-> r.tbl,
            obj |-> IF r.raised = NoError THEN [self EXCEPT !.id = r.lastrowid] ELSE self,
            stmts |-> <<Stmt("INSERT", "magazines", r.lastrowid)>>]
  ELSE LET r == UpdateMagazine(tbl, self.name, self.category, self.id)
       IN  [raised |-> r.raised, tbl |-> r.tbl, obj |-> self,
            stmts |-> <<Stmt("UPDATE", "magazines", self.id)>>]

ArticleRow(title, content, author_id, magazine_id) ==
  [title |-> title, content |-> content,
   author_id |-> author_id, magazine_id |-> magazine_id]

\* INSERT INTO articles(title, content, author_id, magazine_id) VALUES (?, ?, ?, ?)
\* get_connection does not enable PRAGMA foreign_keys: the references are not checked
InsertArticle(tbl, title, content, author_id, magazine_id) ==
  [raised |-> NoError,
   tbl |-> Append(tbl, ArticleRow(title, content, author_id, magazine_id)),
   lastrowid |-> Len(tbl) + 1]

\* UPDATE articles that leaves the content column out of its SET list
UpdateArticleWithoutContent(tbl, title, content, author_id, magazine_id, id) ==
  IF id \notin 1..Len(tbl) THEN [raised |-> NoError, tbl |-> tbl]
  ELSE [raised |-> NoError,
        tbl |-> [tbl EXCEPT ![id] = ArticleRow(title, tbl[id].content, author_id, magazine_id)]]

\* UPDATE articles SET title = ?, content = ?, author_id = ?, magazine_id = ? WHERE id = ?
UpdateArticle(tbl, title, content, author_id, magazine_id, id) ==
  IF id \notin 1..Len(tbl) THEN [raised |-> NoError, tbl |-> tbl]
  ELSE [raised |-> NoError,
        tbl |-> [tbl EXCEPT ![id] = ArticleRow(title, content, author_id, magazine_id)]]

\* if getattr(self.author, "id", None) is None: self.author.save()
CascadeAuthor(tbl, author) ==
  IF author.id = NoId THEN AuthorSaveOp(tbl, author)
  ELSE [raised |-> NoError, tbl |-> tbl, obj |-> author, stmts |-> <<>>]

\* a cascade that saves the magazine whether or not it has an id
CascadeMagazineAlways(tbl, magazine) == MagazineSaveOp(tbl, magazine)

\* if getattr(self.magazine, "id", None) is None: self.magazine.save()
CascadeMagazine(tbl, magazine) ==
  IF magazine.id = NoId THEN MagazineSaveOp(tbl, magazine)
  ELSE [raised |-> NoError, tbl |-> tbl, obj |-> magazine, stmts |-> <<>>]

\* the article's own INSERT or UPDATE in Article.save
ArticleWrite(tbl, self, author_id, magazine_id) ==
  IF self.id = NoId
  THEN LET r == InsertArticle(tbl, self.title, self.content, author_id, magazine_id)
       IN  [tbl |-> r.tbl, obj |-> [self EXCEPT !.id = r.lastrowid],
            stmts |-> <<Stmt("INSERT", "articles", r.lastrowid)>>]
  ELSE LET r == UpdateArticle(tbl, self.title, self.content, author_id, magazine_id, self.id)
       IN  [tbl |-> r.tbl, obj |-> self,
            stmts |-> <<Stmt("UPDATE", "articles", self.id)>>]

\* Article.save as one transaction: a rejected magazine rolls the author's row back
ArticleSaveOpAtomic(db, self, author, magazine) ==
  LET a == CascadeAuthor(db.authors, author)
      m == CascadeMagazine(db.magazines, magazine)
      w == ArticleWrite(db.articles, self, a.obj.id, m.obj.id)
  IN  IF a.raised # NoError \/ m.raised # NoError
      THEN [raised |-> IF a.raised # NoError THEN a.raised ELSE m.raised,
            authors |-> db.authors, magazines |-> db.magazines,
            articles |-> db.articles, obj |-> self, author |-> author,
            magazine |-> magazine,
            stmts |-> IF a.raised # NoError THEN a.stmts ELSE a.stmts \o m.stmts]
      ELSE [raised |-> NoError, authors |-> a.tbl, magazines |-> m.tbl,
            articles |-> w.tbl, obj |-> w.obj, author |-> a.obj,
            magazine |-> m.obj, stmts |-> a.stmts \o m.stmts \o w.stmts]

\* Article.save: the two cascades, then the article's row, each committed on its own
ArticleSaveOp(db, self, author, magazine) ==
  LET a == CascadeAuthor(db.authors, author)
      m == CascadeMagazine(db.magazines, magazine)
      w == ArticleWrite(db.articles, self, a.obj.id, m.obj.id)
  IN  IF a.raised # NoError
      THEN [raised |-> a.raised, authors |-> db.authors, magazines |-> db.magazines,
            articles |-> db.articles, obj |-> self, author |-> author,
            magazine |-> magazine, stmts |-> a.stmts]
      ELSE IF m.raised # NoError
      THEN [raised |-> m.raised, authors |-> a.tbl, magazines |-> db.magazines,
            articles |-> db.articles, obj |-> self, author |-> a.obj,
            magazine |-> magazine, stmts |-> a.stmts \o m.stmts]
      ELSE [raised |-> NoError, authors |-> a.tbl, magazines |-> m.tbl,
            articles |-> w.tbl, obj |-> w.obj, author |-> a.obj,
            magazine |-> m.obj, stmts |-> a.stmts \o m.stmts \o w.stmts]

(* ---- point lookups ---- *)
\* Author.new_from_db
AuthorNewFromDb(id, row) == AuthorInit(Str(row.name), id)

\* Author.find_by_id; an object that is not live is Python's None
AuthorFindById(tbl, id) ==
  IF id \in 1..Len(tbl) THEN AuthorNewFromDb(id, tbl[id]) ELSE Ok(NoAuthor)

\* Magazine.new_from_db
MagazineNewFromDb(id, row) == MagazineInit(Str(row.name), row.category, id)

\* Magazine.find_by_id
MagazineFindById(tbl, id) ==
  IF id \in 1..Len(tbl) THEN MagazineNewFromDb(id, tbl[id]) ELSE Ok(NoMagazine)

\* Article.new_from_db: hydrates the author and the magazine by their stored ids
ArticleNewFromDb(db, id, row) ==
  LET a == AuthorFindById(db.authors, row.author_id)
      m == MagazineFindById(db.magazines, row.magazine_id)
      r == ArticleInit(Str(row.title), a.obj, m.obj, row.content, id)
  IN  IF a.raised # NoError
      THEN [raised |-> a.raised, obj |-> NoArticle, author |-> NoAuthor, magazine |-> NoMagazine]
      ELSE IF m.raised # NoError
      THEN [raised |-> m.raised, obj |-> NoArticle, author |-> NoAuthor, magazine |-> NoMagazine]
      ELSE IF r.raised # NoError
      THEN [raised |-> r.raised, obj |-> NoArticle, author |-> NoAuthor, magazine |-> NoMagazine]
      ELSE [raised |-> NoError, obj |-> r.obj, author |-> a.obj, magazine |-> m.obj]

\* Article.find_by_id
ArticleFindById(db, id) ==
  IF id \in 1..Len(db.articles) THEN ArticleNewFromDb(db, id, db.articles[id])
  ELSE [raised |-> NoError, obj |-> NoArticle, author |-> NoAuthor, magazine |-> NoMagazine]

(* ---- relationship and aggregate queries ---- *)
\* the pairs <<o, i>> of a nested-loop join that pass its ON and WHERE conditions
Join(nOuter, nInner, On(_, _)) ==
  LET f[k \in 0..(nOuter * nInner)] ==
        IF k = 0 THEN <<>>
        ELSE LET o == ((k - 1) \div nInner) + 1
                 i == ((k - 1) % nInner) + 1
             IN  IF On(o, i) THEN Append(f[k - 1], <<o, i>>) ELSE f[k - 1]
  IN  f[nOuter * nInner]

\* SELECT without DISTINCT
NotDistinct(rows) == rows

\* SELECT DISTINCT
RECURSIVE Distinct(_)
Distinct(rows) ==
  IF rows = <<>> THEN <<>>
  ELSE LET d == Distinct(SubSeq(rows, 1, Len(rows) - 1))
           x == rows[Len(rows)]
       IN  IF \E k \in 1..Len(d) : d[k] = x THEN d ELSE Append(d, x)

\* Author.magazines
AuthorMagazines(db, self) ==
  IF self.id = NoId THEN <<>>
  ELSE LET pairs == Join(Len(db.magazines), Len(db.articles),
                         LAMBDA m, a : /\ db.articles[a].magazine_id = m
                                       /\ db.articles[a].author_id = self.id)
           rows == Distinct([k \in 1..Len(pairs) |->
                              [id |-> pairs[k][1], row |-> db.magazines[pairs[k][1]]]])
       IN  [k \in 1..Len(rows) |-> MagazineNewFromDb(rows[k].id, rows[k].row).obj]

\* Magazine.contributors
MagazineContributors(db, self) ==
  IF self.id = NoId THEN <<>>
  ELSE LET pairs == Join(Len(db.authors), Len(db.articles),
                         LAMBDA u, a : /\ db.articles[a].author_id = u
                                       /\ db.articles[a].magazine_id = self.id)
           rows == Distinct([k \in 1..Len(pairs) |->
                              [id |-> pairs[k][1], row |-> db.authors[pairs[k][1]]]])
       IN  [k \in 1..Len(rows) |-> AuthorNewFromDb(rows[k].id, rows[k].row).obj]

RECURSIVE Ascending(_)
Ascending(S) ==
  IF S = {} THEN <<>>
  ELSE LET m == CHOOSE x \in S : \A y \in S : x <= y
       IN  <<m>> \o Ascending(S \ {m})

\* COUNT(id) of the group of the articles WHERE magazine_id = ? with this author_id
CountByAuthor(tbl, magazine_id, author_id) ==
  Cardinality({i \in 1..Len(tbl) : /\ tbl[i].magazine_id = magazine_id
                                   /\ tbl[i].author_id = author_id})

\* HAVING COUNT(id) >= 2
HavingAtLeastTwo(c) == c >= 2

\* HAVING COUNT(id) > 2
Having(c) == c > 2

\* Magazine.contributing_authors; GROUP BY yields one row per author_id
ContributingAuthors(tbl, magazine_id) ==
  LET groups == {tbl[i].author_id : i \in {j \in 1..Len(tbl) : tbl[j].magazine_id = magazine_id}}
  IN  SelectSeq(Ascending(groups),
                LAMBDA a : Having(CountByAuthor(tbl, magazine_id, a)))

\* COUNT(id) AS c of the group of the articles with this magazine_id
CountByMagazine(tbl, magazine_id) ==
  Cardinality({i \in 1..Len(tbl) : tbl[i].magazine_id = magazine_id})

\* ORDER BY c (ascending) LIMIT 1
TopPublisherRowsAscending(tbl) ==
  LET groups == {tbl[i].magazine_id : i \in 1..Len(tbl)}
  IN  {g \in groups : \A h \in groups : CountByMagazine(tbl, g) <= CountByMagazine(tbl, h)}

\* the magazine_ids that ORDER BY c DESC LIMIT 1 may put first: the order of
\* groups with equal counts is SQLite's, and the library fixes none
TopPublisherRows(tbl) ==
  LET groups == {tbl[i].magazine_id : i \in 1..Len(tbl)}
  IN  {g \in groups : \A h \in groups : CountByMagazine(tbl, g) >= CountByMagazine(tbl, h)}

DB == [authors |-> authors, magazines |-> magazines, articles |-> articles]

(* ---- the caller's steps ---- *)
\* what the last operation was, raised and executed
Did(op, raised, stmts) == [op |-> op, raised |-> raised, stmts |-> stmts]
Returned(op, arg, value) == [op |-> op, arg |-> arg, value |-> value]
NoResult == Returned("none", NoId, <<>>)

Init ==
  /\ authors = <<>> /\ magazines = <<>> /\ articles = <<>>
  /\ au = NoAuthor /\ mg = NoMagazine /\ art = NoArticle
  /\ last = Did("create_tables", NoError, <<>>)
  /\ result = NoResult
  /\ ops = 0

\* au = Author(name, id)
NewAuthor(name, id) ==
  /\ ~art.live
  /\ LET r == AuthorInit(name, id)
     IN  /\ au' = IF r.raised = NoError THEN r.obj ELSE au
         /\ last' = Did("Author", r.raised, <<>>)
  /\ result' = NoResult
  /\ UNCHANGED <<store, mg, art>>

\* mg = Magazine(name, category, id)
NewMagazine(name, category, id) ==
  /\ ~art.live
  /\ LET r == MagazineInit(name, category, id)
     IN  /\ mg' = IF r.raised = NoError THEN r.obj ELSE mg
         /\ last' = Did("Magazine", r.raised, <<>>)
  /\ result' = NoResult
  /\ UNCHANGED <<store, au, art>>

\* art = Article(title, au, mg, content, id)
NewArticle(title, content, id) ==
  /\ LET r == ArticleInit(title, au, mg, content, id)
     IN  /\ art' = IF r.raised = NoError THEN r.obj ELSE art
         /\ last' = Did("Article", r.raised, <<>>)
  /\ result' = NoResult
  /\ UNCHANGED <<store, au, mg>>

\* mg.name = value
SetName(value) ==
  /\ mg.live
  /\ LET r == MagazineNameSetter(mg, value)
     IN  /\ mg' = r.obj
         /\ last' = Did("Magazine.name", r.raised, <<>>)
  /\ result' = NoResult
  /\ UNCHANGED <<store, au, art>>

\* mg.category = value
SetCategory(value) ==
  /\ mg.live
  /\ LET r == MagazineCategorySetter(mg, value)
     IN  /\ mg' = r.obj
         /\ last' = Did("Magazine.category", r.raised, <<>>)
  /\ result' = NoResult
  /\ UNCHANGED <<store, au, art>>

\* art.content = value
SetContent(value) ==
  /\ art.live
  /\ art' = [art EXCEPT !.content = value]
  /\ last' = Did("Article.content", NoError, <<>>)
  /\ result' = NoResult
  /\ UNCHANGED <<store, au, mg>>

\* au.save()
AuthorSave ==
  /\ au.live
  /\ LET r == AuthorSaveOp(authors, au)
     IN  /\ authors' = r.tbl
         /\ au' = r.obj
         /\ last' = Did("Author.save", r.raised, r.stmts)
  /\ result' = NoResult
  /\ UNCHANGED <<magazines, articles, mg, art>>

\* mg.save()
MagazineSave ==
  /\ mg.live
  /\ LET r == MagazineSaveOp(magazines, mg)
     IN  /\ magazines' = r.tbl
         /\ mg' = r.obj
         /\ last' = Did("Magazine.save", r.raised, r.stmts)
  /\ result' = NoResult
  /\ UNCHANGED <<authors, articles, au, art>>

\* art.save()
ArticleSave ==
  /\ art.live
  /\ LET r == ArticleSaveOp(DB, art, au, mg)
     IN  /\ authors' = r.authors
         /\ magazines' = r.magazines
         /\ articles' = r.articles
         /\ au' = r.author
         /\ mg' = r.magazine
         /\ art' = r.obj
         /\ last' = Did("Article.save", r.raised, r.stmts)
  /\ result' = NoResult

\* au = Author.find_by_id(id)
FindAuthor(id) ==
  /\ ~art.live
  /\ LET r == AuthorFindById(authors, id)
     IN  /\ au' = IF r.raised = NoError THEN r.obj ELSE au
         /\ last' = Did("Author.find_by_id", r.raised, <<>>)
  /\ result' = NoResult
  /\ UNCHANGED <<store, mg, art>>

\* mg = Magazine.find_by_id(id)
FindMagazine(id) ==
  /\ ~art.live
  /\ LET r == MagazineFindById(magazines, id)
     IN  /\ mg' = IF r.raised = NoError THEN r.obj ELSE mg
         /\ last' = Did("Magazine.find_by_id", r.raised, <<>>)
  /\ result' = NoResult
  /\ UNCHANGED <<store, au, art>>

\* art = Article.find_by_id(id); au = art.author; mg = art.magazine
FindArticle(id) ==
  /\ LET r == ArticleFindById(DB, id)
     IN  /\ art' = IF r.raised = NoError THEN r.obj ELSE art
         /\ au' = IF r.raised = NoError /\ r.obj.live THEN r.author ELSE au
         /\ mg' = IF r.raised = NoError /\ r.obj.live THEN r.magazine ELSE mg
         /\ last' = Did("Article.find_by_id", r.raised, <<>>)
  /\ result' = NoResult
  /\ UNCHANGED store

\* au.add_article(mg, title), the Article it returns dropped
AddArticle(title) ==
  /\ au.live
  /\ LET c == ArticleInit(title, au, mg, None, NoId)
         r == ArticleSaveOp(DB, c.obj, au, mg)
     IN  IF c.raised # NoError
         THEN /\ last' = Did("Author.add_article", c.raised, <<>>)
              /\ UNCHANGED <<store, au, mg>>
         ELSE /\ authors' = r.authors
              /\ magazines' = r.magazines
              /\ articles' = r.articles
              /\ au' = r.author
              /\ mg' = r.magazine
              /\ last' = Did("Author.add_article", r.raised, r.stmts)
  /\ result' = NoResult
  /\ UNCHANGED art

\* the caller drops its Article, as the tests do with Article(...).save()
Discard ==
  /\ art.live
  /\ art' = NoArticle
  /\ last' = Did("discard", NoError, <<>>)
  /\ result' = NoResult
  /\ UNCHANGED <<store, au, mg>>

\* au.magazines()
Magazines ==
  /\ au.live
  /\ result' = Returned("Author.magazines", au.id, AuthorMagazines(DB, au))
  /\ last' = Did("Author.magazines", NoError, <<>>)
  /\ UNCHANGED <<store, objects>>

\* mg.contributors()
Contributors ==
  /\ mg.live
  /\ result' = Returned("Magazine.contributors", mg.id, MagazineContributors(DB, mg))
  /\ last' = Did("Magazine.contributors", NoError, <<>>)
  /\ UNCHANGED <<store, objects>>

\* Magazine.contributing_authors(magazine_id)
ContributingAuthorsOf(magazine_id) ==
  /\ result' = Returned("Magazine.contributing_authors", magazine_id,
                        ContributingAuthors(articles, magazine_id))
  /\ last' = Did("Magazine.contributing_authors", NoError, <<>>)
  /\ UNCHANGED <<store, objects>>

\* Magazine.top_publisher(): fetchone() is None, or the first row's magazine_id
TopPublisher ==
  /\ \/ /\ TopPublisherRows(articles) = {}
        /\ result' = Returned("Magazine.top_publisher", NoId, <<>>)
     \/ \E g \in TopPublisherRows(articles) :
          result' = Returned("Magazine.top_publisher", NoId, <<g>>)
  /\ last' = Did("Magazine.top_publisher", NoError, <<>>)
  /\ UNCHANGED <<store, objects>>

(* ---- the entity operations ---- *)
Names == {Str(<<"a">>), Str(<<"b">>)}
Categories == {None, Str(<<"c">>)}
Titles == {Str(<<"t">>)}
Contents == {None, Str(<<"v">>)}
Ids == {NoId, 1, 2}

\* one more operation of a run of at most n
Tick(n) == ops < n /\ ops' = ops + 1

Next ==
  \/ Tick(MaxOps) /\ \E name \in Names, id \in Ids : NewAuthor(name, id)
  \/ Tick(MaxOps) /\ \E name \in Names, category \in Categories, id \in Ids :
       NewMagazine(name, category, id)
  \/ Tick(MaxOps) /\ \E title \in Titles, content \in Contents, id \in Ids :
       NewArticle(title, content, id)
  \/ Tick(MaxOps) /\ \E value \in Names : SetName(value)
  \/ Tick(MaxOps) /\ \E value \in Categories : SetCategory(value)
  \/ Tick(MaxOps) /\ \E value \in Contents : SetContent(value)
  \/ Tick(MaxOps) /\ AuthorSave
  \/ Tick(MaxOps) /\ MagazineSave
  \/ Tick(MaxOps) /\ ArticleSave
  \/ Tick(MaxOps) /\ \E title \in Titles : AddArticle(title)
  \/ Tick(MaxOps) /\ \E id \in Ids \ {NoId} : FindAuthor(id)
  \/ Tick(MaxOps) /\ \E id \in Ids \ {NoId} : FindMagazine(id)
  \/ Tick(MaxOps) /\ \E id \in Ids \ {NoId} : FindArticle(id)
  \/ Tick(MaxOps) /\ Discard

Spec == Init /\ [][Next]_vars

(* ---- validation: the constructors and setters on every kind of input ---- *)
NameInputs == {None, Str(<<>>), Str(<<" ">>), Str(<<"a">>), Str(<<" ", "b", "\t">>)}
CategoryInputs == {None, Str(<<>>), Str(<<"\n">>), Str(<<" ", "c">>)}
TitleInputs == {None, Str(<<" ", " ">>), Str(<<"t", " ">>)}

NextValidation ==
  \/ Tick(MaxValidationOps) /\ \E name \in NameInputs : NewAuthor(name, NoId)
  \/ Tick(MaxValidationOps) /\ \E name \in NameInputs, category \in CategoryInputs :
       NewMagazine(name, category, NoId)
  \/ Tick(MaxValidationOps) /\ \E title \in TitleInputs : NewArticle(title, None, NoId)
  \/ Tick(MaxValidationOps) /\ \E value \in NameInputs : SetName(value)
  \/ Tick(MaxValidationOps) /\ \E value \in CategoryInputs : SetCategory(value)
  \/ Tick(MaxValidationOps) /\ AuthorSave
  \/ Tick(MaxValidationOps) /\ MagazineSave
  \/ Tick(MaxValidationOps) /\ ArticleSave

SpecValidation == Init /\ [][NextValidation]_vars

(* ---- the relationship queries over the stores add_article builds ---- *)
Links(n) == Len(articles') <= n /\ UNCHANGED ops

NextRelations ==
  \/ \E name \in Names, id \in Ids : NewAuthor(name, id) /\ UNCHANGED ops
  \/ \E name \in Names, id \in Ids : NewMagazine(name, None, id) /\ UNCHANGED ops
  \/ \E title \in Titles : AddArticle(title) /\ Links(MaxLinks)
  \/ Magazines /\ UNCHANGED ops
  \/ Contributors /\ UNCHANGED ops

SpecRelations == Init /\ [][NextRelations]_vars

(* ---- the aggregate queries: only the articles table is read ---- *)
OneName == {Str(<<"a">>)}

NextAggregates ==
  \/ \E name \in OneName, id \in Ids : NewAuthor(name, id) /\ UNCHANGED ops
  \/ \E name \in OneName, id \in Ids : NewMagazine(name, None, id) /\ UNCHANGED ops
  \/ \E title \in Titles : AddArticle(title) /\ Links(MaxRows)
  \/ \E id \in Ids \ {NoId} : ContributingAuthorsOf(id) /\ UNCHANGED ops
  \/ TopPublisher /\ UNCHANGED ops

SpecAggregates == Init /\ [][NextAggregates]_vars
(* ======================= the claims ======================= *)
Rows(tbl) == 1..Len(tbl)
Returns(op) == last.op = op /\ last.raised = NoError
HasText(s) == \E i \in 1..Len(s) : s[i] \notin Whitespace
Tables(stmts) == [k \in 1..Len(stmts) |-> stmts[k].table]

(* C1, as stated: after any save() that returns, find_by_id(e.id) returns an
   entity equal to e in every field; for an Article also an author and a
   magazine equal in id and fields to e.author and e.magazine. *)
C1_RoundTripAsStated ==
  /\ Returns("Author.save") =>
       LET f == AuthorFindById(authors, au.id)
       IN  f.raised = NoError /\ f.obj = au
  /\ Returns("Magazine.save") =>
       LET f == MagazineFindById(magazines, mg.id)
       IN  f.raised = NoError /\ f.obj = mg
  /\ Returns("Article.save") =>
       LET f == ArticleFindById(DB, art.id)
       IN  f.raised = NoError /\ f.obj = art /\ f.author = au /\ f.magazine = mg

(* C1, amended: after a save() that returns, an entity that was unidentified
   has a row; whenever a row with e.id exists, Author.find_by_id and
   Magazine.find_by_id return an entity equal to e in every field, and the
   article's row holds e's title and content with author_id = e.author.id and
   magazine_id = e.magazine.id; when the two referenced rows exist as well,
   Article.find_by_id returns an Article with e's id, title and content whose
   author and magazine carry the ids of e.author and e.magazine. *)
C1_RoundTrip ==
  /\ Returns("Author.save") =>
       /\ last.stmts[1].verb = "INSERT" => au.id \in Rows(authors)
       /\ au.id \in Rows(authors) =>
            LET f == AuthorFindById(authors, au.id)
            IN  f.raised = NoError /\ f.obj = au
  /\ Returns("Magazine.save") =>
       /\ last.stmts[1].verb = "INSERT" => mg.id \in Rows(magazines)
       /\ mg.id \in Rows(magazines) =>
            LET f == MagazineFindById(magazines, mg.id)
            IN  f.raised = NoError /\ f.obj = mg
  /\ Returns("Article.save") =>
       /\ last.stmts[Len(last.stmts)].verb = "INSERT" => art.id \in Rows(articles)
       /\ art.id \in Rows(articles) =>
            /\ articles[art.id].title = art.title
            /\ articles[art.id].content = art.content
            /\ articles[art.id].author_id = au.id
            /\ articles[art.id].magazine_id = mg.id
       /\ art.id \in Rows(articles) /\ au.id \in Rows(authors) /\ mg.id \in Rows(magazines) =>
            LET f == ArticleFindById(DB, art.id)
            IN  /\ f.raised = NoError
                /\ f.obj = art
                /\ f.author.id = au.id
                /\ f.magazine.id = mg.id

\* an article saved a second time with new content, found again with it, while
\* its magazine carries a name that was never saved
C1_Witness ==
  /\ Returns("Article.save")
  /\ last.stmts = <<Stmt("UPDATE", "articles", art.id)>>
  /\ art.id \in Rows(articles) /\ au.id \in Rows(authors) /\ mg.id \in Rows(magazines)
  /\ ArticleFindById(DB, art.id).obj = art
  /\ ArticleFindById(DB, art.id).author = au
  /\ ArticleFindById(DB, art.id).magazine # mg

(* C2: save() of an identified entity keeps its identifier and the number of
   rows of its table, and executes an UPDATE of that identifier, never an
   INSERT; the first save() of an unidentified entity that returns adds exactly
   one row to its table and adopts that row's identifier. *)
C2_Step ==
  /\ last'.op = "Author.save" /\ au.id # NoId =>
       /\ au'.id = au.id /\ Len(authors') = Len(authors)
       /\ last'.stmts = <<Stmt("UPDATE", "authors", au.id)>>
  /\ last'.op = "Author.save" /\ au.id = NoId /\ last'.raised = NoError =>
       /\ Len(authors') = Len(authors) + 1
       /\ au'.id = Len(authors') /\ authors'[au'.id].name = au.name
       /\ SubSeq(authors', 1, Len(authors)) = authors
  /\ last'.op = "Magazine.save" /\ mg.id # NoId =>
       /\ mg'.id = mg.id /\ Len(magazines') = Len(magazines)
       /\ last'.stmts = <<Stmt("UPDATE", "magazines", mg.id)>>
  /\ last'.op = "Magazine.save" /\ mg.id = NoId /\ last'.raised = NoError =>
       /\ Len(magazines') = Len(magazines) + 1
       /\ mg'.id = Len(magazines') /\ magazines'[mg'.id].name = mg.name
       /\ SubSeq(magazines', 1, Len(magazines)) = magazines
  /\ last'.op = "Article.save" /\ art.id # NoId =>
       /\ art'.id = art.id /\ Len(articles') = Len(articles)
       /\ last'.stmts[Len(last'.stmts)].table = "articles" =>
            last'.stmts[Len(last'.stmts)] = Stmt("UPDATE", "articles", art.id)
  /\ last'.op = "Article.save" /\ art.id = NoId /\ last'.raised = NoError =>
       /\ Len(articles') = Len(articles) + 1
       /\ art'.id = Len(articles') /\ articles'[art'.id].title = art.title
       /\ SubSeq(articles', 1, Len(articles)) = articles

(* C2: every step of every run is a C2_Step: a first save that returns adds
   one row and adopts its identifier, a later save keeps the identifier and
   the row count. *)
C2_IdStability == [][C2_Step]_vars

\* an entity with a store-assigned identifier saved again
C2_Witness ==
  /\ last.op = "Magazine.save"
  /\ last.stmts = <<Stmt("UPDATE", "magazines", mg.id)>>
  /\ mg.id \in Rows(magazines)
  /\ Len(magazines) = 1 /\ Len(authors) = 1

(* C3: an Article.save() that returns leaves the article, its author and its
   magazine identified and the article's row with their identifiers; an
   unidentified Author or Magazine is inserted, and adopts its identifier, by a
   statement executed before the article's, and an identified one is neither
   written nor changed.  Author.add_article saves its Article the same way. *)
C3_Step ==
  /\ last'.op = "Article.save" /\ last'.raised = NoError =>
       /\ art'.id # NoId /\ au'.id # NoId /\ mg'.id # NoId
       /\ art.id = NoId => art'.id \in Rows(articles')
       /\ art'.id \in Rows(articles') =>
            /\ articles'[art'.id].author_id = au'.id
            /\ articles'[art'.id].magazine_id = mg'.id
  /\ last'.op = "Author.add_article" /\ last'.raised = NoError =>
       /\ au'.id # NoId /\ mg'.id # NoId
       /\ Len(articles') = Len(articles) + 1
       /\ articles'[Len(articles')].author_id = au'.id
       /\ articles'[Len(articles')].magazine_id = mg'.id
  /\ last'.op \in {"Article.save", "Author.add_article"} /\ last'.raised = NoError =>
       LET t == Tables(last'.stmts)
       IN  /\ t[Len(t)] = "articles"
           /\ \A k \in 1..(Len(t) - 1) : t[k] # "articles"
           /\ IF au.id = NoId
              THEN /\ authors' = Append(authors, [name |-> au.name])
                   /\ au' = [au EXCEPT !.id = Len(authors')]
                   /\ \E k \in 1..(Len(t) - 1) :
                        last'.stmts[k] = Stmt("INSERT", "authors", au'.id)
              ELSE /\ authors' = authors /\ au' = au
                   /\ \A k \in 1..Len(t) : t[k] # "authors"
           /\ IF mg.id = NoId
              THEN /\ magazines' = Append(magazines, [name |-> mg.name, category |-> mg.category])
                   /\ mg' = [mg EXCEPT !.id = Len(magazines')]
                   /\ \E k \in 1..(Len(t) - 1) :
                        last'.stmts[k] = Stmt("INSERT", "magazines", mg'.id)
              ELSE /\ magazines' = magazines /\ mg' = mg
                   /\ \A k \in 1..Len(t) : t[k] # "magazines"

(* C3: every step of every run is a C3_Step: Article.save saves exactly the
   unidentified author and magazine first, then writes the article row with
   their identifiers. *)
C3_CascadeSave == [][C3_Step]_vars

\* an Article.save() that cascaded to both its author and its magazine
C3_Witness ==
  /\ Returns("Article.save")
  /\ last.stmts = <<Stmt("INSERT", "authors", au.id), Stmt("INSERT", "magazines", mg.id),
                    Stmt("INSERT", "articles", art.id)>>
  /\ articles[art.id].author_id = au.id /\ articles[art.id].magazine_id = mg.id

(* C4: every article row's author_id is the id of an authors row and its
   magazine_id the id of a magazines row. *)
C4_ReferentialIntegrity ==
  \A i \in Rows(articles) :
    /\ articles[i].author_id \in Rows(authors)
    /\ articles[i].magazine_id \in Rows(magazines)

(* C5: find_by_id raises nothing: for every id it returns the hydrated entity
   of the row with that id, or None when there is no such row; an Article is
   returned with its author and its magazine. *)
C5_LookupNeverRaises ==
  /\ last.op \in {"Author.find_by_id", "Magazine.find_by_id", "Article.find_by_id"} =>
       last.raised = NoError
  /\ \A id \in Ids \ {NoId} :
       /\ AuthorFindById(authors, id).raised = NoError
       /\ AuthorFindById(authors, id).obj.live <=> id \in Rows(authors)
       /\ MagazineFindById(magazines, id).raised = NoError
       /\ MagazineFindById(magazines, id).obj.live <=> id \in Rows(magazines)
       /\ ArticleFindById(DB, id).raised = NoError
       /\ ArticleFindById(DB, id).obj.live <=> id \in Rows(articles)
       /\ id \in Rows(articles) =>
            /\ ArticleFindById(DB, id).author.live
            /\ ArticleFindById(DB, id).magazine.live

(* C10: Article.save() of an unidentified article whose unidentified author's
   name is new and whose unidentified magazine's name is already a magazines
   row raises the store's IntegrityError; the authors row stays inserted and
   the Author keeps its new identifier; no magazines row and no articles row
   is added, and the Magazine and the Article stay unidentified. *)
C10_Step ==
  ( /\ last'.op = "Article.save"
    /\ au.id = NoId /\ mg.id = NoId /\ art.id = NoId
    /\ \A i \in Rows(authors) : authors[i].name # au.name
    /\ \E i \in Rows(magazines) : magazines[i].name = mg.name )
  => /\ last'.raised = IntegrityError
     /\ authors' = Append(authors, [name |-> au.name])
     /\ au' = [au EXCEPT !.id = Len(authors')]
     /\ magazines' = magazines /\ articles' = articles
     /\ mg' = mg /\ art' = art

(* C10: every step of every run is a C10_Step: when the cascaded magazine
   save is rejected, the author row already inserted stays and no article
   row is written. *)
C10_PartialCascade == [][C10_Step]_vars

\* the author inserted, the magazine's insert rejected, nothing else written
C10_Witness ==
  /\ last.op = "Article.save" /\ last.raised = IntegrityError
  /\ last.stmts = <<Stmt("INSERT", "authors", au.id), Stmt("INSERT", "magazines", NoId)>>
  /\ au.id \in Rows(authors) /\ mg.id = NoId /\ art.id = NoId
  /\ articles = <<>>
(* C8: a constructor or setter given None, an empty or a whitespace-only name,
   title or (not None) category raises ValueError, executes no statement and
   changes neither the store nor any entity; otherwise the entity holds the
   input without its leading and trailing whitespace.  So no entity and no row
   holds a name, title or category without text, and a row inserted by save()
   holds the entity's name or title. *)
Blank(v) == v.tag # "str" \/ ~HasText(v.s)
Trimmed(s) ==
  LET text == {i \in 1..Len(s) : s[i] \notin Whitespace}
  IN  IF text = {} THEN <<>>
      ELSE SubSeq(s, CHOOSE i \in text : \A j \in text : i <= j,
                     CHOOSE i \in text : \A j \in text : i >= j)
Rejected == last'.raised = ValueError /\ last'.stmts = <<>> /\ UNCHANGED <<store, objects>>
CategoryHasText(c) == c = None \/ (c.tag = "str" /\ HasText(c.s))
Clean ==
  /\ au.live => HasText(au.name)
  /\ mg.live => HasText(mg.name) /\ CategoryHasText(mg.category)
  /\ art.live => HasText(art.title)
  /\ \A i \in Rows(authors) : HasText(authors[i].name)
  /\ \A i \in Rows(magazines) :
       HasText(magazines[i].name) /\ CategoryHasText(magazines[i].category)
  /\ \A i \in Rows(articles) : HasText(articles[i].title)

C8_Step ==
  /\ Clean /\ Clean'
  /\ last'.raised = ValueError => last'.stmts = <<>> /\ UNCHANGED store
  /\ \A name \in NameInputs : NewAuthor(name, NoId) =>
       IF Blank(name) THEN Rejected
       ELSE last'.raised = NoError /\ au'.name = Trimmed(name.s)
  /\ \A name \in NameInputs, category \in CategoryInputs :
       NewMagazine(name, category, NoId) =>
         IF Blank(name) \/ (category # None /\ Blank(category)) THEN Rejected
         ELSE /\ last'.raised = NoError /\ mg'.name = Trimmed(name.s)
              /\ mg'.category = IF category = None THEN None ELSE Str(Trimmed(category.s))
  /\ \A title \in TitleInputs : NewArticle(title, None, NoId) =>
       IF Blank(title) THEN Rejected
       ELSE last'.raised = NoError => art'.title = Trimmed(title.s)
  /\ \A value \in NameInputs : SetName(value) =>
       IF Blank(value) THEN Rejected
       ELSE last'.raised = NoError /\ mg'.name = Trimmed(value.s)
  /\ \A value \in CategoryInputs : SetCategory(value) =>
       IF value # None /\ Blank(value) THEN Rejected
       ELSE /\ last'.raised = NoError
            /\ mg'.category = IF value = None THEN None ELSE Str(Trimmed(value.s))
  /\ last'.op = "Author.save" /\ Len(authors') > Len(authors) =>
       authors'[Len(authors')].name = au.name
  /\ last'.op = "Magazine.save" /\ Len(magazines') > Len(magazines) =>
       magazines'[Len(magazines')] = [name |-> mg.name, category |-> mg.category]
  /\ last'.op = "Article.save" /\ Len(articles') > Len(articles) =>
       articles'[Len(articles')].title = art.title

(* C8: every step of every run is a C8_Step: an invalid name, title or
   category is rejected before any statement runs, and an accepted one is
   stored trimmed. *)
C8_Validation == [][C8_Step]_vars

\* a rejected input after a padded one was accepted, stripped and saved
C8_Witness ==
  /\ last.raised = ValueError
  /\ mg.live /\ mg.name = <<"b">> /\ mg.category = Str(<<"c">>)
  /\ mg.id \in Rows(magazines) /\ magazines[mg.id].name = <<"b">>

(* C6: Magazine.contributing_authors(magazine_id) returns, each once, exactly
   the author ids with more than 2 article rows of that magazine_id. *)
InMagazine(magazine_id, author_id) ==
  Cardinality({i \in Rows(articles) : /\ articles[i].magazine_id = magazine_id
                                      /\ articles[i].author_id = author_id})
C6_ContributingAuthors ==
  last.op = "Magazine.contributing_authors" =>
    LET v == result.value
        returned == {v[k] : k \in 1..Len(v)}
        known == Ids \cup {articles[i].author_id : i \in Rows(articles)} \cup returned
    IN  /\ \A j, k \in 1..Len(v) : j # k => v[j] # v[k]
        /\ \A a \in known : a \in returned <=> InMagazine(result.arg, a) > 2
        /\ (\A i \in Rows(articles) : articles[i].magazine_id # result.arg) => v = <<>>

\* one author returned, another with an article in the magazine left out
C6_Witness ==
  /\ last.op = "Magazine.contributing_authors"
  /\ Len(result.value) = 1
  /\ \E i \in Rows(articles) :
       /\ articles[i].magazine_id = result.arg
       /\ articles[i].author_id # result.value[1]

(* C7: Magazine.top_publisher() returns None when articles is empty, and
   otherwise a magazine id with at least one article row and at least as many
   as every other magazine id. *)
OfMagazine(magazine_id) ==
  Cardinality({i \in Rows(articles) : articles[i].magazine_id = magazine_id})
C7_TopPublisher ==
  last.op = "Magazine.top_publisher" =>
    IF articles = <<>> THEN result.value = <<>>
    ELSE /\ Len(result.value) = 1
         /\ OfMagazine(result.value[1]) >= 1
         /\ \A i \in Rows(articles) :
              OfMagazine(result.value[1]) >= OfMagazine(articles[i].magazine_id)

\* the magazine returned has more articles than another magazine that has some
C7_Witness ==
  /\ last.op = "Magazine.top_publisher"
  /\ Len(result.value) = 1
  /\ \E i \in Rows(articles) :
       OfMagazine(articles[i].magazine_id) < OfMagazine(result.value[1])

(* C9: for a persisted author A and a persisted magazine M, M is in
   A.magazines() once if an article row has author_id = A.id and magazine_id =
   M.id and not at all otherwise, and A is in M.contributors() under the same
   condition; both return [] for an unidentified entity. *)
Linked(author_id, magazine_id) ==
  \E i \in Rows(articles) : /\ articles[i].author_id = author_id
                            /\ articles[i].magazine_id = magazine_id
Occurs(list, id) == Cardinality({k \in 1..Len(list) : list[k].id = id})
C9_Relations ==
  /\ last.op = "Author.magazines" /\ au.id = NoId => result.value = <<>>
  /\ last.op = "Author.magazines" /\ au.id \in Rows(authors) =>
       \A m \in Rows(magazines) :
         Occurs(result.value, m) = IF Linked(au.id, m) THEN 1 ELSE 0
  /\ last.op = "Magazine.contributors" /\ mg.id = NoId => result.value = <<>>
  /\ last.op = "Magazine.contributors" /\ mg.id \in Rows(magazines) =>
       \A a \in Rows(authors) :
         Occurs(result.value, a) = IF Linked(a, mg.id) THEN 1 ELSE 0
  /\ \A a \in Rows(authors), m \in Rows(magazines) :
       Occurs(AuthorMagazines(DB, AuthorFindById(authors, a).obj), m)
         = Occurs(MagazineContributors(DB, MagazineFindById(magazines, m).obj), a)

\* two articles link the author and the one magazine returned
C9_Witness ==
  /\ last.op = "Author.magazines"
  /\ au.id \in Rows(authors)
  /\ Len(result.value) = 1
  /\ Cardinality({i \in Rows(articles) : /\ articles[i].author_id = au.id
                                         /\ articles[i].magazine_id = result.value[1].id}) = 2
====
